---- MODULE Spec2Model ----
(***************************************************************************)
(* A model of lib/go/context.go: FContextImpl, its accessors and mutators, *)
(* Clone, the process-wide opid counter and the opid/timeout helpers.      *)
(*                                                                         *)
(* Go strings are sequences of one-character strings (<<"5","0">> is       *)
(* "50"), so that formatting and parsing are computed, not assumed.  Go    *)
(* maps are heap objects: a context holds three references into heap, and  *)
(* copying a map allocates a new object.  Goroutines are the elements of   *)
(* Threads; a method holding c.mu is split at its lock acquisition.        *)
(*                                                                         *)
(* Spec is the package with every function of the file.  FairSpec adds     *)
(* the calls that block in Lock()/RLock() and the fairness of the          *)
(* scheduler; CloneSpec starts from one constructed context and has Clone  *)
(* and the mutators only.                                                  *)
(***************************************************************************)
EXTENDS Integers, Sequences, FiniteSets, TLC

----------------------------------------------------------------------------
(* Bounds of the model.                                                    *)

\* Total number of calls the goroutines make.
MaxCalls == 3

\* Width of int64/uint64/time.Duration in the model: every wrap and range
\* check of the code is kept, at BitSize bits instead of 64.
BitSize == 20

\* time.Millisecond in units of time.Duration (the model's tick is a quarter
\* of a millisecond instead of a nanosecond).
Millisecond == 4

Threads == {1, 2}

----------------------------------------------------------------------------
(* Constants of context.go.                                                *)

cidHeader == <<"_", "c", "i", "d">>
opIDHeader == <<"_", "o", "p", "i", "d">>
timeoutHeader == <<"_", "t", "i", "m", "e", "o", "u", "t">>

Second == 1000 * Millisecond
defaultTimeout == 5 * Second

----------------------------------------------------------------------------
(* Integer types.                                                          *)

Pow2(n) == 2 ^ n
MaxUint64 == Pow2(BitSize) - 1
MaxInt64 == Pow2(BitSize - 1) - 1
MinInt64 == - Pow2(BitSize - 1)

\* Conversion to uint64 / int64: two's complement wrap-around.
Uint64(x) == x % Pow2(BitSize)
Int64(x) == ((x + Pow2(BitSize - 1)) % Pow2(BitSize)) - Pow2(BitSize - 1)

\* Go's integer division truncates toward zero.
Quo(a, b) == IF a >= 0 THEN a \div b ELSE - ((- a) \div b)

\* atomic.AddUint64(&addr, delta): the new value.
AddUint64Stuck(old, delta) == old
AddUint64(old, delta) == Uint64(old + delta)

----------------------------------------------------------------------------
(* strconv.                                                                *)

Digits == <<"0", "1", "2", "3", "4", "5", "6", "7", "8", "9">>
IsDigit(ch) == \E i \in 1..10 : Digits[i] = ch
DigitVal(ch) == (CHOOSE i \in 1..10 : Digits[i] = ch) - 1

RECURSIVE formatBits(_)
formatBits(u) ==
    IF u < 10 THEN << Digits[u + 1] >>
    ELSE Append(formatBits(u \div 10), Digits[(u % 10) + 1])

FormatUint(i) == formatBits(i)
FormatIntNoSign(i) == formatBits(IF i < 0 THEN - i ELSE i)
FormatInt(i) == IF i < 0 THEN <<"-">> \o formatBits(- i) ELSE formatBits(i)

\* strconv.ParseUint(s, 10, 64): digit by digit, with the range checks of
\* the library.  err is "nil", "ErrSyntax" or "ErrRange".
RECURSIVE parseDigits(_, _, _)
parseDigits(s, i, n) ==
    IF i > Len(s) THEN [val |-> n, err |-> "nil"]
    ELSE IF ~ IsDigit(s[i]) THEN [val |-> 0, err |-> "ErrSyntax"]
    ELSE IF n >= (MaxUint64 \div 10) + 1 THEN [val |-> MaxUint64, err |-> "ErrRange"]
    ELSE LET n1 == n * 10 + DigitVal(s[i])
         IN  IF n1 > MaxUint64 THEN [val |-> MaxUint64, err |-> "ErrRange"]
             ELSE parseDigits(s, i + 1, n1)

ParseUint(s) ==
    IF s = << >> THEN [val |-> 0, err |-> "ErrSyntax"]
    ELSE parseDigits(s, 1, 0)

\* strconv.ParseInt(s, 10, 64): an optional sign, then ParseUint.
ParseInt(s) ==
    IF s = << >> THEN [val |-> 0, err |-> "ErrSyntax"]
    ELSE LET neg == s[1] = "-"
             s1 == IF s[1] = "+" \/ s[1] = "-" THEN Tail(s) ELSE s
             un == ParseUint(s1)
             cutoff == Pow2(BitSize - 1)
         IN  IF un.err = "ErrSyntax" THEN [val |-> 0, err |-> "ErrSyntax"]
             ELSE IF un.err = "ErrRange" \/ (~ neg /\ un.val >= cutoff)
                      \/ (neg /\ un.val > cutoff)
                  THEN [val |-> IF neg THEN - cutoff ELSE cutoff - 1, err |-> "ErrRange"]
                  ELSE [val |-> IF neg THEN - un.val ELSE un.val, err |-> "nil"]

----------------------------------------------------------------------------
(* Go maps.                                                                *)

EmptyMap == [k \in {} |-> << >>]

\* m[k] = v
MapPutOnly(m, k, v) == [x \in {k} |-> v]
MapPutIfAbsent(m, k, v) ==
    [x \in (DOMAIN m) \cup {k} |-> IF x \in DOMAIN m THEN m[x] ELSE v]
MapPut(m, k, v) == [x \in (DOMAIN m) \cup {k} |-> IF x = k THEN v ELSE m[x]]

\* v, ok := m[k]; a missing key reads as the zero value "".
MapGet(m, k) == IF k \in DOMAIN m THEN m[k] ELSE << >>
MapHas(m, k) == k \in DOMAIN m

\* make(map, len(m)); for k, v := range m { copy[k] = v }
CopyMapEmpty(m) == EmptyMap
CopyMapButOpID(m) == [k \in (DOMAIN m) \ {opIDHeader} |-> m[k]]
CopyMap(m) == [k \in DOMAIN m |-> m[k]]

----------------------------------------------------------------------------
(* Inputs the callers draw from.                                           *)

\* Correlation ids passed to NewFContext: "" and "abc".
CorrelationIDs == { << >>, <<"a", "b", "c">> }

\* What nuid.Next() may return: some non-empty random string.
Nuids == { <<"n", "u", "i", "d">> }

\* Names and values passed to AddRequestHeader: the two reserved headers that
\* callers are told not to write, and an application header.  The values are
\* a small number (the first opid), the same with a sign, a non-numeric text,
\* and the decimal text of the first integer that does not fit in a uint64.
RequestNames == { opIDHeader, timeoutHeader, <<"x">> }
TooBig == formatBits(MaxUint64 + 1)
RequestValues == { <<"1">>, <<"+", "1">>, <<"a", "b", "c">>, TooBig }

ResponseNames == { opIDHeader, <<"y">> }
ResponseValues == { <<"1">> }

EphemeralKeys == { <<"k">> }
EphemeralValues == { <<"v">> }

\* Durations passed to SetTimeout: negative, positive and less than a
\* millisecond, not a whole number of milliseconds, and 7500ms.
Durations == { - Millisecond, Millisecond - 1, Millisecond + 1, 7500 * Millisecond }

\* Names passed to RequestHeader: an application header.
ReadNames == { <<"x">> }

\* What the application writes to a map it was returned: a new entry.
CallerNames == { <<"z">> }
CallerValues == { <<"0">> }

\* Ids passed to setRequestOpID: the second token of the counter, and the
\* largest uint64.
OpIDs == { 2, MaxUint64 }

----------------------------------------------------------------------------
(* State.                                                                  *)

VARIABLES
    nextOpID,             \* var nextOpID uint64
    heap,                 \* the maps allocated so far: address -> map
    requestHeaders,       \* FContextImpl.requestHeaders, per context: an address
    responseHeaders,      \* FContextImpl.responseHeaders
    ephemeralProperties,  \* FContextImpl.ephemeralProperties
    mu,                   \* FContextImpl.mu: [w: the writer or 0, r: the readers,
                          \* p: the goroutines blocked in Lock()]
    frame,                \* per goroutine: the call in progress and its locals
    ret,                  \* per goroutine: what its last call returned
    calls,                \* number of calls begun (and of writes by the application
                          \* to maps it was returned)
    issued,               \* history: per context, its _opid when it was returned
    expect,               \* history: per context, the duration last given to
                          \* SetTimeout (or the default), {} once _timeout is
                          \* written by AddRequestHeader or the context is a clone
    wrote                 \* history: per context, the <<name, value>> of the
                          \* AddRequestHeader calls that have returned, the
                          \* latest for each name

vars == << nextOpID, heap, requestHeaders, responseHeaders, ephemeralProperties,
           mu, frame, ret, calls, issued, expect, wrote >>

Ctxs == DOMAIN mu

\* The maps of context c, by value.
RequestMap(c) == heap[requestHeaders[c]]
ResponseMap(c) == heap[responseHeaders[c]]
EphemeralMap(c) == heap[ephemeralProperties[c]]

\* A goroutine's frame: pc, the method called (op) on context c with its
\* arguments, the locals of Clone (rh, sh, ep), and history: dirty (a mutator
\* of c returned during this Clone), hist (the values of c's three maps since
\* this Clone began), seen (wrote[c] when this RequestHeaders() began).
Idle == [pc |-> "idle", op |-> "none", c |-> 0, name |-> << >>, value |-> << >>,
         n |-> 0, rh |-> 0, sh |-> 0, ep |-> 0, dirty |-> FALSE, hist |-> << >>,
         seen |-> {}]

\* What a call returned: the call (op, c, name), the context (new), the
\* string (val, ok), the number or duration (n, err), the address of the map
\* (m), the scope of ToContext; gen is what generateCorrelationID gave,
\* touched says that the caller has since written to the map it was given,
\* and seen is the frame's (history).
NoRet == [op |-> "none", c |-> 0, new |-> 0, name |-> << >>, val |-> << >>,
          ok |-> FALSE, n |-> 0, err |-> "nil", gen |-> << >>, m |-> 0,
          scope |-> "none", touched |-> FALSE, seen |-> {}]

\* The address of a newly allocated map.
Fresh(h) == CHOOSE a \in 1..(Cardinality(DOMAIN h) + 1) :
                a \notin DOMAIN h /\ \A b \in 1..(a - 1) : b \in DOMAIN h

Extend(h, a, m) == [x \in (DOMAIN h) \cup {a} |-> IF x = a THEN m ELSE h[x]]

\* A copy of the map at address a: the heap with the copy, and its address.
SnapshotAlias(h, a) == [heap |-> h, ref |-> a]
Snapshot(h, a) ==
    LET n == Fresh(h) IN [heap |-> Extend(h, n, CopyMap(h[a])), ref |-> n]

----------------------------------------------------------------------------
(* sync.RWMutex.                                                           *)

Unlocked == [w |-> 0, r |-> {}, p |-> {}]
\* Lock() blocks while a writer or a reader holds the lock.
CanLockAmongReaders(c) == mu[c].w = 0
CanLock(c) == mu[c].w = 0 /\ mu[c].r = {}
\* RLock() blocks while a writer holds the lock or is blocked in Lock().
CanRLock(c) == mu[c].w = 0 /\ mu[c].p = {}
Lock(t, c) == [mu EXCEPT ![c].w = t, ![c].p = @ \ {t}]
Unlock(t, c) == [mu EXCEPT ![c].w = 0]
RLock(t, c) == [mu EXCEPT ![c].r = @ \cup {t}]
RUnlockOfWriter(t, c) == [mu EXCEPT ![c].w = 0]
RUnlock(t, c) == [mu EXCEPT ![c].r = @ \ {t}]

----------------------------------------------------------------------------
(* The opid counter.                                                       *)

\* getNextOpID: the counter after the draw, and the token.
getNextOpIDNoStore(counter) ==
    [counter |-> counter, token |-> FormatUint(AddUint64(counter, 1))]
getNextOpIDOld(counter) ==
    [counter |-> AddUint64(counter, 1), token |-> FormatUint(counter)]
getNextOpID(counter) ==
    LET v == AddUint64(counter, 1) IN [counter |-> v, token |-> FormatUint(v)]

\* generateCorrelationID
generateCorrelationID == Nuids

\* The request headers NewFContext builds.
NewRequestHeadersRawTimeout(correlationID, token) ==
    MapPut(MapPut(MapPut(EmptyMap, cidHeader, correlationID), opIDHeader, token),
           timeoutHeader, FormatInt(Int64(defaultTimeout)))
NewRequestHeaders(correlationID, token) ==
    MapPut(MapPut(MapPut(EmptyMap, cidHeader, correlationID), opIDHeader, token),
           timeoutHeader, FormatInt(Int64(Quo(defaultTimeout, Millisecond))))

\* The header SetTimeout(timeout) stores.
TimeoutMillisText(timeout) ==
    FormatInt(Int64(Quo(timeout, Millisecond))) \o <<"m", "s">>
TimeoutMillis(timeout) == FormatInt(Int64(Quo(timeout, Millisecond)))

\* What Timeout() makes of the header it read.
TimeoutOfBadIsZero(timeoutMillisStr) ==
    LET p == ParseInt(timeoutMillisStr)
    IN  IF p.err # "nil" THEN 0 ELSE Int64(Millisecond * p.val)
TimeoutOf(timeoutMillisStr) ==
    LET p == ParseInt(timeoutMillisStr)
    IN  IF p.err # "nil" THEN defaultTimeout ELSE Int64(Millisecond * p.val)

\* What getOpID makes of opIDStr, ok := ctx.RequestHeader(opIDHeader).
OpIDOfLenient(opIDStr, ok) ==
    [n |-> ParseUint(opIDStr).val, err |-> "nil"]
OpIDOf(opIDStr, ok) ==
    IF ~ ok THEN [n |-> 0, err |-> "no _opid header"]
    ELSE LET p == ParseUint(opIDStr)
         IN  IF p.err # "nil" THEN [n |-> 0, err |-> "not a non-negative integer"]
             ELSE [n |-> p.val, err |-> "nil"]

\* What ToContext(fctx) returns when fctx.Timeout() is to: the scope of
\* context.WithTimeout(ctx, to), or ctx := context.Background() itself with a
\* cancel that does nothing.
ScopeOfNotNegative(to) == IF to >= 0 THEN "WithTimeout" ELSE "Background"
ScopeOf(to) == IF to > 0 THEN "WithTimeout" ELSE "Background"

Init ==
    /\ nextOpID = 0
    /\ heap = << >>
    /\ requestHeaders = << >>
    /\ responseHeaders = << >>
    /\ ephemeralProperties = << >>
    /\ mu = << >>
    /\ frame = [t \in Threads |-> Idle]
    /\ ret = [t \in Threads |-> NoRet]
    /\ calls = 0
    /\ issued = << >>
    /\ expect = << >>
    /\ wrote = << >>


----------------------------------------------------------------------------
(* Calls.  A call begins in an idle goroutine and takes the first lock of  *)
(* its method in the same step; later steps run to the next lock or to the *)
(* return.                                                                 *)

CanCall(t) == frame[t].pc = "idle" /\ calls < MaxCalls

\* Goroutine t begins op on c and stands at pc.
Begin(t, op, pc, c, name, value, n) ==
    /\ frame' = [frame EXCEPT ![t] =
            [Idle EXCEPT !.pc = pc, !.op = op, !.c = c, !.name = name,
                         !.value = value, !.n = n,
                         !.hist = IF op = "Clone"
                                  THEN << << RequestMap(c), ResponseMap(c),
                                             EphemeralMap(c) >> >>
                                  ELSE << >>,
                         !.seen = IF op = "RequestHeaders" THEN wrote[c] ELSE {}]]
    /\ ret' = [ret EXCEPT ![t] = NoRet]
    /\ calls' = calls + 1

\* Goroutine t wrote a map of c: the frames that are cloning c note it
\* (history: frame.dirty), and t returns r.
ReturnAfterWrite(t, c, r) ==
    /\ frame' = [u \in Threads |->
                    IF u = t THEN Idle
                    ELSE IF frame[u].op = "Clone" /\ frame[u].c = c
                         THEN [frame[u] EXCEPT
                                  !.dirty = TRUE,
                                  !.hist = Append(@, << heap'[requestHeaders[c]],
                                                        heap'[responseHeaders[c]],
                                                        heap'[ephemeralProperties[c]] >>)]
                         ELSE frame[u]]
    /\ ret' = [ret EXCEPT ![t] = r]

Return(t, r) ==
    /\ frame' = [frame EXCEPT ![t] = Idle]
    /\ ret' = [ret EXCEPT ![t] = r]

\* NewFContext(correlationID)
NewFContext(t, correlationID) ==
    /\ CanCall(t)
    /\ \E g \in (IF correlationID = << >> THEN generateCorrelationID ELSE { << >> }) :
        LET cid == IF correlationID = << >> THEN g ELSE correlationID
            d == getNextOpID(nextOpID)
            c == Cardinality(Ctxs) + 1
            a1 == Fresh(heap)
            h1 == Extend(heap, a1, NewRequestHeaders(cid, d.token))
            a2 == Fresh(h1)
            h2 == Extend(h1, a2, EmptyMap)
            a3 == Fresh(h2)
            h3 == Extend(h2, a3, EmptyMap)
        IN  /\ nextOpID' = d.counter
            /\ heap' = h3
            /\ requestHeaders' = Extend(requestHeaders, c, a1)
            /\ responseHeaders' = Extend(responseHeaders, c, a2)
            /\ ephemeralProperties' = Extend(ephemeralProperties, c, a3)
            /\ mu' = Extend(mu, c, Unlocked)
            /\ issued' = Extend(issued, c, MapGet(h3[a1], opIDHeader))
            /\ expect' = Extend(expect, c, {defaultTimeout})
            /\ wrote' = Extend(wrote, c, {})
            /\ frame' = frame
            /\ ret' = [ret EXCEPT ![t] = [NoRet EXCEPT !.op = "NewFContext", !.new = c,
                                           !.val = correlationID, !.gen = g]]
            /\ calls' = calls + 1

\* c.mu.Lock() of AddRequestHeader(name, value)
AddRequestHeader_Lock(t, c, name, value) ==
    /\ CanCall(t) /\ c \in Ctxs /\ CanLock(c)
    /\ mu' = Lock(t, c)
    /\ Begin(t, "AddRequestHeader", "AddRequestHeader", c, name, value, 0)
    /\ UNCHANGED << nextOpID, heap, requestHeaders, responseHeaders,
                    ephemeralProperties, issued, expect, wrote >>

\* setRequestOpID(ctx, id), up to the c.mu.Lock() of its AddRequestHeader
setRequestOpID(t, c, id) ==
    /\ CanCall(t) /\ c \in Ctxs /\ CanLock(c)
    /\ mu' = Lock(t, c)
    /\ Begin(t, "setRequestOpID", "AddRequestHeader", c, opIDHeader, FormatUint(id), id)
    /\ UNCHANGED << nextOpID, heap, requestHeaders, responseHeaders,
                    ephemeralProperties, issued, expect, wrote >>

\* c.requestHeaders[name] = value; c.mu.Unlock(); return
AddRequestHeader(t) ==
    LET f == frame[t] IN
    /\ f.pc = "AddRequestHeader"
    /\ heap' = [heap EXCEPT ![requestHeaders[f.c]] = MapPut(@, f.name, f.value)]
    /\ mu' = Unlock(t, f.c)
    /\ expect' = IF f.name = timeoutHeader THEN [expect EXCEPT ![f.c] = {}] ELSE expect
    /\ wrote' = [wrote EXCEPT ![f.c] =
                    {w \in @ : w[1] # f.name} \cup {<< f.name, f.value >>}]
    /\ ReturnAfterWrite(t, f.c, [NoRet EXCEPT !.op = f.op, !.c = f.c, !.name = f.name,
                                              !.val = f.value, !.n = f.n])
    /\ UNCHANGED << nextOpID, requestHeaders, responseHeaders, ephemeralProperties,
                    calls, issued >>

\* c.mu.Lock() of AddResponseHeader(name, value)
AddResponseHeader_Lock(t, c, name, value) ==
    /\ CanCall(t) /\ c \in Ctxs /\ CanLock(c)
    /\ mu' = Lock(t, c)
    /\ Begin(t, "AddResponseHeader", "AddResponseHeader", c, name, value, 0)
    /\ UNCHANGED << nextOpID, heap, requestHeaders, responseHeaders,
                    ephemeralProperties, issued, expect, wrote >>

\* c.responseHeaders[name] = value; c.mu.Unlock(); return
AddResponseHeader(t) ==
    LET f == frame[t] IN
    /\ f.pc = "AddResponseHeader"
    /\ heap' = [heap EXCEPT ![responseHeaders[f.c]] = MapPut(@, f.name, f.value)]
    /\ mu' = Unlock(t, f.c)
    /\ ReturnAfterWrite(t, f.c, [NoRet EXCEPT !.op = f.op, !.c = f.c, !.name = f.name,
                                              !.val = f.value])
    /\ UNCHANGED << nextOpID, requestHeaders, responseHeaders, ephemeralProperties,
                    calls, issued, expect, wrote >>

\* setResponseOpID(ctx, id), up to the c.mu.Lock() of its AddResponseHeader
setResponseOpIDAsRequest(t, c, id) ==
    /\ CanCall(t) /\ c \in Ctxs /\ CanLock(c)
    /\ mu' = Lock(t, c)
    /\ Begin(t, "setResponseOpID", "AddRequestHeader", c, opIDHeader, id, 0)
    /\ UNCHANGED << nextOpID, heap, requestHeaders, responseHeaders,
                    ephemeralProperties, issued, expect, wrote >>
setResponseOpID(t, c, id) ==
    /\ CanCall(t) /\ c \in Ctxs /\ CanLock(c)
    /\ mu' = Lock(t, c)
    /\ Begin(t, "setResponseOpID", "AddResponseHeader", c, opIDHeader, id, 0)
    /\ UNCHANGED << nextOpID, heap, requestHeaders, responseHeaders,
                    ephemeralProperties, issued, expect, wrote >>

\* c.mu.RLock() of ResponseHeader(name)
ResponseHeader_RLock(t, c, name) ==
    /\ CanCall(t) /\ c \in Ctxs /\ CanRLock(c)
    /\ mu' = RLock(t, c)
    /\ Begin(t, "ResponseHeader", "ResponseHeader", c, name, << >>, 0)
    /\ UNCHANGED << nextOpID, heap, requestHeaders, responseHeaders,
                    ephemeralProperties, issued, expect, wrote >>

\* val, ok := c.responseHeaders[name]; c.mu.RUnlock(); return
ResponseHeader(t) ==
    LET f == frame[t] IN
    /\ f.pc = "ResponseHeader"
    /\ mu' = RUnlock(t, f.c)
    /\ Return(t, [NoRet EXCEPT !.op = f.op, !.c = f.c, !.name = f.name,
                               !.val = MapGet(ResponseMap(f.c), f.name),
                               !.ok = MapHas(ResponseMap(f.c), f.name)])
    /\ UNCHANGED << nextOpID, heap, requestHeaders, responseHeaders,
                    ephemeralProperties, calls, issued, expect, wrote >>

\* c.mu.Lock() of EphemeralProperty(key): the exclusive lock, not RLock()
EphemeralProperty_Lock(t, c, key) ==
    /\ CanCall(t) /\ c \in Ctxs /\ CanLock(c)
    /\ mu' = Lock(t, c)
    /\ Begin(t, "EphemeralProperty", "EphemeralProperty", c, key, << >>, 0)
    /\ UNCHANGED << nextOpID, heap, requestHeaders, responseHeaders,
                    ephemeralProperties, issued, expect, wrote >>

\* value, ok := c.ephemeralProperties[key]; c.mu.Unlock(); return
EphemeralProperty(t) ==
    LET f == frame[t] IN
    /\ f.pc = "EphemeralProperty"
    /\ mu' = Unlock(t, f.c)
    /\ Return(t, [NoRet EXCEPT !.op = f.op, !.c = f.c, !.name = f.name,
                               !.val = MapGet(EphemeralMap(f.c), f.name),
                               !.ok = MapHas(EphemeralMap(f.c), f.name)])
    /\ UNCHANGED << nextOpID, heap, requestHeaders, responseHeaders,
                    ephemeralProperties, calls, issued, expect, wrote >>

\* c.mu.Lock() of AddEphemeralProperty(key, value)
AddEphemeralProperty_Lock(t, c, key, value) ==
    /\ CanCall(t) /\ c \in Ctxs /\ CanLock(c)
    /\ mu' = Lock(t, c)
    /\ Begin(t, "AddEphemeralProperty", "AddEphemeralProperty", c, key, value, 0)
    /\ UNCHANGED << nextOpID, heap, requestHeaders, responseHeaders,
                    ephemeralProperties, issued, expect, wrote >>

\* c.ephemeralProperties[key] = value; c.mu.Unlock(); return
AddEphemeralProperty(t) ==
    LET f == frame[t] IN
    /\ f.pc = "AddEphemeralProperty"
    /\ heap' = [heap EXCEPT ![ephemeralProperties[f.c]] = MapPut(@, f.name, f.value)]
    /\ mu' = Unlock(t, f.c)
    /\ ReturnAfterWrite(t, f.c, [NoRet EXCEPT !.op = f.op, !.c = f.c, !.name = f.name,
                                              !.val = f.value])
    /\ UNCHANGED << nextOpID, requestHeaders, responseHeaders, ephemeralProperties,
                    calls, issued, expect, wrote >>

\* c.mu.Lock() of SetTimeout(timeout)
SetTimeout_Lock(t, c, timeout) ==
    /\ CanCall(t) /\ c \in Ctxs /\ CanLock(c)
    /\ mu' = Lock(t, c)
    /\ Begin(t, "SetTimeout", "SetTimeout", c, << >>, << >>, timeout)
    /\ UNCHANGED << nextOpID, heap, requestHeaders, responseHeaders,
                    ephemeralProperties, issued, expect, wrote >>

\* c.requestHeaders[timeoutHeader] = FormatInt(...); c.mu.Unlock(); return
SetTimeout(t) ==
    LET f == frame[t] IN
    /\ f.pc = "SetTimeout"
    /\ heap' = [heap EXCEPT ![requestHeaders[f.c]] =
                                MapPut(@, timeoutHeader, TimeoutMillis(f.n))]
    /\ mu' = Unlock(t, f.c)
    /\ expect' = [expect EXCEPT ![f.c] = {f.n}]
    /\ wrote' = [wrote EXCEPT ![f.c] = {w \in @ : w[1] # timeoutHeader}]
    /\ ReturnAfterWrite(t, f.c, [NoRet EXCEPT !.op = f.op, !.c = f.c, !.n = f.n])
    /\ UNCHANGED << nextOpID, requestHeaders, responseHeaders, ephemeralProperties,
                    calls, issued >>

\* c.mu.RLock() of Timeout()
Timeout_RLock(t, c) ==
    /\ CanCall(t) /\ c \in Ctxs /\ CanRLock(c)
    /\ mu' = RLock(t, c)
    /\ Begin(t, "Timeout", "Timeout", c, << >>, << >>, 0)
    /\ UNCHANGED << nextOpID, heap, requestHeaders, responseHeaders,
                    ephemeralProperties, issued, expect, wrote >>

\* ToContext(fctx), up to the c.mu.RLock() of its fctx.Timeout()
ToContext(t, c) ==
    /\ CanCall(t) /\ c \in Ctxs /\ CanRLock(c)
    /\ mu' = RLock(t, c)
    /\ Begin(t, "ToContext", "Timeout", c, << >>, << >>, 0)
    /\ UNCHANGED << nextOpID, heap, requestHeaders, responseHeaders,
                    ephemeralProperties, issued, expect, wrote >>

\* timeoutMillisStr := c.requestHeaders[timeoutHeader]; c.mu.RUnlock(); parse;
\* return; and the rest of ToContext, which is local
Timeout(t) ==
    LET f == frame[t]
        timeoutMillisStr == MapGet(RequestMap(f.c), timeoutHeader)
    IN  /\ f.pc = "Timeout"
        /\ mu' = RUnlock(t, f.c)
        /\ Return(t, [NoRet EXCEPT !.op = f.op, !.c = f.c, !.val = timeoutMillisStr,
                                   !.n = TimeoutOf(timeoutMillisStr),
                                   !.scope = IF f.op = "ToContext"
                                             THEN ScopeOf(TimeoutOf(timeoutMillisStr))
                                             ELSE "none"])
        /\ UNCHANGED << nextOpID, heap, requestHeaders, responseHeaders,
                        ephemeralProperties, calls, issued, expect, wrote >>

\* c.mu.RLock() of CorrelationID()
CorrelationID_RLock(t, c) ==
    /\ CanCall(t) /\ c \in Ctxs /\ CanRLock(c)
    /\ mu' = RLock(t, c)
    /\ Begin(t, "CorrelationID", "CorrelationID", c, cidHeader, << >>, 0)
    /\ UNCHANGED << nextOpID, heap, requestHeaders, responseHeaders,
                    ephemeralProperties, issued, expect, wrote >>

\* return c.requestHeaders[cidHeader], with the deferred c.mu.RUnlock()
CorrelationID(t) ==
    LET f == frame[t] IN
    /\ f.pc = "CorrelationID"
    /\ mu' = RUnlock(t, f.c)
    /\ Return(t, [NoRet EXCEPT !.op = f.op, !.c = f.c, !.name = f.name,
                               !.val = MapGet(RequestMap(f.c), cidHeader)])
    /\ UNCHANGED << nextOpID, heap, requestHeaders, responseHeaders,
                    ephemeralProperties, calls, issued, expect, wrote >>

\* c.mu.RLock() of RequestHeader(name)
RequestHeader_RLock(t, c, name) ==
    /\ CanCall(t) /\ c \in Ctxs /\ CanRLock(c)
    /\ mu' = RLock(t, c)
    /\ Begin(t, "RequestHeader", "RequestHeader", c, name, << >>, 0)
    /\ UNCHANGED << nextOpID, heap, requestHeaders, responseHeaders,
                    ephemeralProperties, issued, expect, wrote >>

\* getOpID(ctx), up to the c.mu.RLock() of its RequestHeader(opIDHeader)
getOpID(t, c) ==
    /\ CanCall(t) /\ c \in Ctxs /\ CanRLock(c)
    /\ mu' = RLock(t, c)
    /\ Begin(t, "getOpID", "RequestHeader", c, opIDHeader, << >>, 0)
    /\ UNCHANGED << nextOpID, heap, requestHeaders, responseHeaders,
                    ephemeralProperties, issued, expect, wrote >>

\* val, ok := c.requestHeaders[name]; c.mu.RUnlock(); return; and, called by
\* getOpID, the rest of getOpID, which is local
RequestHeader(t) ==
    LET f == frame[t]
        val == MapGet(RequestMap(f.c), f.name)
        ok == MapHas(RequestMap(f.c), f.name)
        id == IF f.op = "getOpID" THEN OpIDOf(val, ok) ELSE [n |-> 0, err |-> "nil"]
    IN  /\ f.pc = "RequestHeader"
        /\ mu' = RUnlock(t, f.c)
        /\ Return(t, [NoRet EXCEPT !.op = f.op, !.c = f.c, !.name = f.name, !.val = val,
                                   !.ok = ok, !.n = id.n, !.err = id.err])
        /\ UNCHANGED << nextOpID, heap, requestHeaders, responseHeaders,
                        ephemeralProperties, calls, issued, expect, wrote >>

\* Clone(ctx): ctx is an FContextImpl, so this is ctx.Clone(), up to the
\* c.mu.RLock() of its c.RequestHeaders()
Clone(t, c) ==
    /\ CanCall(t) /\ c \in Ctxs /\ CanRLock(c)
    /\ mu' = RLock(t, c)
    /\ Begin(t, "Clone", "RequestHeaders", c, << >>, << >>, 0)
    /\ UNCHANGED << nextOpID, heap, requestHeaders, responseHeaders,
                    ephemeralProperties, issued, expect, wrote >>

\* c.mu.RLock() of RequestHeaders(), called by the application
RequestHeaders_Call(t, c) ==
    /\ CanCall(t) /\ c \in Ctxs /\ CanRLock(c)
    /\ mu' = RLock(t, c)
    /\ Begin(t, "RequestHeaders", "RequestHeaders", c, << >>, << >>, 0)
    /\ UNCHANGED << nextOpID, heap, requestHeaders, responseHeaders,
                    ephemeralProperties, issued, expect, wrote >>

\* RequestHeaders(): the copy, c.mu.RUnlock(), return (to Clone, or to the
\* application, which is given the address of the copy)
RequestHeaders(t) ==
    LET f == frame[t]
        s == Snapshot(heap, requestHeaders[f.c])
    IN  /\ f.pc = "RequestHeaders"
        /\ heap' = s.heap
        /\ mu' = RUnlock(t, f.c)
        /\ IF f.op = "Clone"
           THEN /\ frame' = [frame EXCEPT ![t].rh = s.ref, ![t].pc = "Clone_ResponseHeaders"]
                /\ ret' = ret
           ELSE Return(t, [NoRet EXCEPT !.op = f.op, !.c = f.c, !.m = s.ref,
                                        !.seen = f.seen])
        /\ UNCHANGED << nextOpID, requestHeaders, responseHeaders, ephemeralProperties,
                        calls, issued, expect, wrote >>

\* c.mu.RLock() of the c.ResponseHeaders() of Clone
ResponseHeaders_RLock(t) ==
    /\ frame[t].pc = "Clone_ResponseHeaders" /\ CanRLock(frame[t].c)
    /\ mu' = RLock(t, frame[t].c)
    /\ frame' = [frame EXCEPT ![t].pc = "ResponseHeaders"]
    /\ UNCHANGED << nextOpID, heap, requestHeaders, responseHeaders,
                    ephemeralProperties, ret, calls, issued, expect, wrote >>

\* c.mu.RLock() of ResponseHeaders(), called by the application
ResponseHeaders_Call(t, c) ==
    /\ CanCall(t) /\ c \in Ctxs /\ CanRLock(c)
    /\ mu' = RLock(t, c)
    /\ Begin(t, "ResponseHeaders", "ResponseHeaders", c, << >>, << >>, 0)
    /\ UNCHANGED << nextOpID, heap, requestHeaders, responseHeaders,
                    ephemeralProperties, issued, expect, wrote >>

\* ResponseHeaders(): the copy, c.mu.RUnlock(), return (to Clone, or to the
\* application, which is given the address of the copy)
ResponseHeaders(t) ==
    LET f == frame[t]
        s == Snapshot(heap, responseHeaders[f.c])
    IN  /\ f.pc = "ResponseHeaders"
        /\ heap' = s.heap
        /\ mu' = RUnlock(t, f.c)
        /\ IF f.op = "Clone"
           THEN /\ frame' = [frame EXCEPT ![t].sh = s.ref, ![t].pc = "Clone_EphemeralProperties"]
                /\ ret' = ret
           ELSE Return(t, [NoRet EXCEPT !.op = f.op, !.c = f.c, !.m = s.ref])
        /\ UNCHANGED << nextOpID, requestHeaders, responseHeaders, ephemeralProperties,
                        calls, issued, expect, wrote >>

\* c.mu.RLock() of the c.EphemeralProperties() of Clone
EphemeralProperties_RLock(t) ==
    /\ frame[t].pc = "Clone_EphemeralProperties" /\ CanRLock(frame[t].c)
    /\ mu' = RLock(t, frame[t].c)
    /\ frame' = [frame EXCEPT ![t].pc = "EphemeralProperties"]
    /\ UNCHANGED << nextOpID, heap, requestHeaders, responseHeaders,
                    ephemeralProperties, ret, calls, issued, expect, wrote >>

\* c.mu.RLock() of EphemeralProperties(), called by the application
EphemeralProperties_Call(t, c) ==
    /\ CanCall(t) /\ c \in Ctxs /\ CanRLock(c)
    /\ mu' = RLock(t, c)
    /\ Begin(t, "EphemeralProperties", "EphemeralProperties", c, << >>, << >>, 0)
    /\ UNCHANGED << nextOpID, heap, requestHeaders, responseHeaders,
                    ephemeralProperties, issued, expect, wrote >>

\* EphemeralProperties(): the copy, c.mu.RUnlock(), return (to Clone, or to the
\* application, which is given the address of the copy)
EphemeralProperties(t) ==
    LET f == frame[t]
        s == Snapshot(heap, ephemeralProperties[f.c])
    IN  /\ f.pc = "EphemeralProperties"
        /\ heap' = s.heap
        /\ mu' = RUnlock(t, f.c)
        /\ IF f.op = "Clone"
           THEN /\ frame' = [frame EXCEPT ![t].ep = s.ref, ![t].pc = "Clone_getNextOpID"]
                /\ ret' = ret
           ELSE Return(t, [NoRet EXCEPT !.op = f.op, !.c = f.c, !.m = s.ref])
        /\ UNCHANGED << nextOpID, requestHeaders, responseHeaders, ephemeralProperties,
                        calls, issued, expect, wrote >>

\* The application writes to the map that RequestHeaders(), ResponseHeaders()
\* or EphemeralProperties() returned to goroutine t: headers[name] = value.
CallerWrites(t, name, value) ==
    /\ CanCall(t) /\ ret[t].m # 0 /\ ~ ret[t].touched
    /\ heap' = [heap EXCEPT ![ret[t].m] = MapPut(@, name, value)]
    /\ ret' = [ret EXCEPT ![t].touched = TRUE]
    /\ calls' = calls + 1
    /\ UNCHANGED << nextOpID, requestHeaders, responseHeaders, ephemeralProperties,
                    mu, frame, issued, expect, wrote >>

\* cloned := &FContextImpl{...}; cloned.requestHeaders[opIDHeader] = getNextOpID();
\* return cloned
Clone_Return(t) ==
    LET f == frame[t]
        d == getNextOpID(nextOpID)
        cloned == Cardinality(Ctxs) + 1
    IN  /\ f.pc = "Clone_getNextOpID"
        /\ nextOpID' = d.counter
        /\ heap' = [heap EXCEPT ![f.rh] = MapPut(@, opIDHeader, d.token)]
        /\ requestHeaders' = Extend(requestHeaders, cloned, f.rh)
        /\ responseHeaders' = Extend(responseHeaders, cloned, f.sh)
        /\ ephemeralProperties' = Extend(ephemeralProperties, cloned, f.ep)
        /\ mu' = Extend(mu, cloned, Unlocked)
        /\ issued' = Extend(issued, cloned, MapGet(heap'[f.rh], opIDHeader))
        /\ expect' = Extend(expect, cloned, {})
        /\ wrote' = Extend(wrote, cloned, {})
        /\ Return(t, [NoRet EXCEPT !.op = "Clone", !.c = f.c, !.new = cloned])
        /\ UNCHANGED calls

Next ==
    \/ \E t \in Threads, correlationID \in CorrelationIDs : NewFContext(t, correlationID)
    \/ \E t \in Threads, c \in Ctxs : Clone(t, c)
    \/ \E t \in Threads : RequestHeaders(t)
    \/ \E t \in Threads : ResponseHeaders_RLock(t)
    \/ \E t \in Threads : ResponseHeaders(t)
    \/ \E t \in Threads : EphemeralProperties_RLock(t)
    \/ \E t \in Threads : EphemeralProperties(t)
    \/ \E t \in Threads : Clone_Return(t)
    \/ \E t \in Threads, c \in Ctxs, name \in RequestNames, value \in RequestValues :
          AddRequestHeader_Lock(t, c, name, value)
    \/ \E t \in Threads, c \in Ctxs, id \in OpIDs : setRequestOpID(t, c, id)
    \/ \E t \in Threads : AddRequestHeader(t)
    \/ \E t \in Threads, c \in Ctxs, name \in ResponseNames, value \in ResponseValues :
          AddResponseHeader_Lock(t, c, name, value)
    \/ \E t \in Threads : AddResponseHeader(t)
    \/ \E t \in Threads, c \in Ctxs, key \in EphemeralKeys, value \in EphemeralValues :
          AddEphemeralProperty_Lock(t, c, key, value)
    \/ \E t \in Threads : AddEphemeralProperty(t)
    \/ \E t \in Threads, c \in Ctxs, timeout \in Durations : SetTimeout_Lock(t, c, timeout)
    \/ \E t \in Threads : SetTimeout(t)
    \/ \E t \in Threads, c \in Ctxs : Timeout_RLock(t, c)
    \/ \E t \in Threads : Timeout(t)
    \/ \E t \in Threads, c \in Ctxs : getOpID(t, c)
    \/ \E t \in Threads : RequestHeader(t)
    \/ \E t \in Threads, c \in Ctxs : CorrelationID_RLock(t, c)
    \/ \E t \in Threads : CorrelationID(t)
    \/ \E t \in Threads, c \in Ctxs, name \in ReadNames : RequestHeader_RLock(t, c, name)
    \/ \E t \in Threads, c \in Ctxs : RequestHeaders_Call(t, c)
    \/ \E t \in Threads, c \in Ctxs, name \in ResponseNames :
          ResponseHeader_RLock(t, c, name)
    \/ \E t \in Threads : ResponseHeader(t)
    \/ \E t \in Threads, c \in Ctxs : ResponseHeaders_Call(t, c)
    \/ \E t \in Threads, c \in Ctxs, id \in ResponseValues : setResponseOpID(t, c, id)
    \/ \E t \in Threads, c \in Ctxs, key \in EphemeralKeys : EphemeralProperty_Lock(t, c, key)
    \/ \E t \in Threads : EphemeralProperty(t)
    \/ \E t \in Threads, c \in Ctxs : EphemeralProperties_Call(t, c)
    \/ \E t \in Threads, c \in Ctxs : ToContext(t, c)
    \/ \E t \in Threads, name \in CallerNames, value \in CallerValues :
          CallerWrites(t, name, value)

Spec == Init /\ [][Next]_vars

----------------------------------------------------------------------------
(* What the properties below are stated with.                              *)

\* The _opid / _cid / _timeout request header of context c, "" when missing.
OpIDHeaderOf(c) == MapGet(RequestMap(c), opIDHeader)

\* The three maps of context c, by value.
MapsOf(c) == << RequestMap(c), ResponseMap(c), EphemeralMap(c) >>

\* The same, in the state a step leads to.
RequestMapAfter(c) == heap'[requestHeaders'[c]]
ResponseMapAfter(c) == heap'[responseHeaders'[c]]
EphemeralMapAfter(c) == heap'[ephemeralProperties'[c]]
OpIDHeaderAfter(c) == MapGet(RequestMapAfter(c), opIDHeader)
MapsAfter(c) == << RequestMapAfter(c), ResponseMapAfter(c), EphemeralMapAfter(c) >>

\* Goroutine t leaves program point pc and returns in this step.
Returns(t, pc) == frame[t].pc = pc /\ frame'[t].pc = "idle"

\* Goroutine t returns from a mutator of a map in this step.
Writes(t) ==
    \/ Returns(t, "AddRequestHeader") \/ Returns(t, "AddResponseHeader")
    \/ Returns(t, "AddEphemeralProperty") \/ Returns(t, "SetTimeout")

\* Decimal texts, read without strconv.
AllDigits(s) == Len(s) > 0 /\ \A i \in 1..Len(s) : IsDigit(s[i])
RECURSIVE DecimalValue(_)
DecimalValue(s) ==
    IF s = << >> THEN 0
    ELSE 10 * DecimalValue(SubSeq(s, 1, Len(s) - 1)) + DigitVal(s[Len(s)])
Signed(s) == Len(s) > 0 /\ (s[1] = "-" \/ s[1] = "+")
Unsigned(s) == IF Signed(s) THEN Tail(s) ELSE s
SignedValue(s) ==
    IF Len(s) > 0 /\ s[1] = "-" THEN - DecimalValue(Tail(s)) ELSE DecimalValue(Unsigned(s))
\* s is the decimal text of an integer that fits in an int64.
IsInt64Text(s) ==
    /\ AllDigits(Unsigned(s))
    /\ SignedValue(s) >= MinInt64 /\ SignedValue(s) <= MaxInt64

----------------------------------------------------------------------------
(* C1: whatever the interleaving of the NewFContext and Clone calls of the *)
(* goroutines, the contexts produced carry pairwise distinct _opid values   *)
(* at the moment each is returned.                                         *)
C1_DistinctOpIDs ==
    \A c \in Ctxs : \A d \in Ctxs : c # d => issued[c] # issued[d]

\* Three contexts, the last two cloned by different goroutines.
C1_Witness ==
    /\ Cardinality(Ctxs) = 3
    /\ \E t \in Threads : \E u \in Threads \ {t} :
            ret[t].op = "Clone" /\ ret[u].op = "Clone"

\* clonedMaps are maps, but for the _opid of the request headers.
SameButOpID(maps, clonedMaps) ==
    /\ DOMAIN clonedMaps[1] = DOMAIN maps[1]
    /\ \A k \in DOMAIN maps[1] : k # opIDHeader => clonedMaps[1][k] = maps[1][k]
    /\ clonedMaps[2] = maps[2]
    /\ clonedMaps[3] = maps[3]
CloneCopies(c, cloned) == SameButOpID(MapsOf(c), MapsOf(cloned))

(* C2 as stated: when Clone returns and no goroutine wrote to c meanwhile, *)
(* the clone's request headers are c's on every key but _opid, its _opid   *)
(* is a new token different from c's _opid, and its response headers and   *)
(* ephemeral properties are c's.                                           *)
C2_Original ==
    [][\A t \in Threads :
          (Returns(t, "Clone_getNextOpID") /\ ~ frame[t].dirty) =>
              /\ SameButOpID(MapsAfter(frame[t].c), MapsAfter(ret'[t].new))
              /\ OpIDHeaderAfter(ret'[t].new) # OpIDHeaderAfter(frame[t].c)]_vars

(* C2, amended: when Clone returns and no goroutine wrote to c meanwhile,  *)
(* the clone's request headers are c's on every key but _opid, and its     *)
(* response headers and ephemeral properties are c's; its _opid is a new   *)
(* token, different from every token issued before, and so from c's _opid  *)
(* as long as c holds the token it was issued (not one written through     *)
(* AddRequestHeader or setRequestOpID).                                    *)
C2_CloneCopies ==
    [][\A t \in Threads :
          (Returns(t, "Clone_getNextOpID") /\ ~ frame[t].dirty) =>
              /\ SameButOpID(MapsAfter(frame[t].c), MapsAfter(ret'[t].new))
              /\ \A d \in Ctxs : OpIDHeaderAfter(ret'[t].new) # issued[d]
              /\ (OpIDHeaderOf(frame[t].c) = issued[frame[t].c] =>
                      OpIDHeaderAfter(ret'[t].new) # OpIDHeaderAfter(frame[t].c))]_vars

\* A clone of a context that carries an application header, a response
\* header or an ephemeral property, returned with no concurrent writer.
C2_Witness ==
    \E t \in Threads :
        /\ ret[t].op = "Clone"
        /\ \A u \in Threads \ {t} : frame[u].pc = "idle"
        /\ CloneCopies(ret[t].c, ret[t].new)
        /\ \/ <<"x">> \in DOMAIN RequestMap(ret[t].new)
           \/ ResponseMap(ret[t].new) # EmptyMap
           \/ EphemeralMap(ret[t].new) # EmptyMap

(* C3: a mutator (AddRequestHeader, AddResponseHeader,                     *)
(* AddEphemeralProperty, SetTimeout) called on one context leaves the      *)
(* three maps of every other context unchanged; in particular after        *)
(* B := A.Clone() writes to A do not show in B, nor writes to B in A.      *)
C3_CloneIsolation ==
    [][\A t \in Threads : Writes(t) =>
          \A d \in Ctxs \ {frame[t].c} : MapsAfter(d) = MapsOf(d)]_vars

\* B was cloned from A, and a mutator has since changed A or B: they differ.
C3_Witness ==
    \E t \in Threads : \E u \in Threads :
        /\ ret[t].op = "Clone"
        /\ ret[u].op \in {"AddRequestHeader", "AddResponseHeader",
                          "AddEphemeralProperty", "SetTimeout"}
        /\ ret[u].c \in {ret[t].c, ret[t].new}
        /\ ~ CloneCopies(ret[t].c, ret[t].new)

(* C4: NewFContext(cid) returns a context whose request headers are        *)
(* exactly _cid, _opid and _timeout, with _opid a newly drawn token,       *)
(* _timeout = "5000" and _cid = cid, or what the correlation-id generator  *)
(* returned when cid is empty; its response headers and ephemeral          *)
(* properties are empty.                                                   *)
C4_NewFContext ==
    [][\A t \in Threads :
          (ret'[t] # ret[t] /\ ret'[t].op = "NewFContext") =>
              LET c == ret'[t].new IN
              /\ c \notin Ctxs /\ c \in Ctxs'
              /\ DOMAIN RequestMapAfter(c) = {cidHeader, opIDHeader, timeoutHeader}
              /\ AllDigits(OpIDHeaderAfter(c))
              /\ DecimalValue(OpIDHeaderAfter(c)) = nextOpID'
              /\ nextOpID' = nextOpID + 1
              /\ \A d \in Ctxs : OpIDHeaderAfter(c) # issued[d]
              /\ RequestMapAfter(c)[timeoutHeader] = <<"5", "0", "0", "0">>
              /\ RequestMapAfter(c)[cidHeader] =
                    (IF ret'[t].val # << >> THEN ret'[t].val ELSE ret'[t].gen)
              /\ RequestMapAfter(c)[cidHeader] # << >>
              /\ ResponseMapAfter(c) = EmptyMap
              /\ EphemeralMapAfter(c) = EmptyMap]_vars

\* NewFContext("") has returned a context while another context exists.
C4_Witness ==
    \E t \in Threads :
        /\ ret[t].op = "NewFContext" /\ ret[t].val = << >>
        /\ ret[t].new > 1
        /\ RequestMap(ret[t].new)[cidHeader] \in Nuids

(* C5 as stated: in every reachable state no two contexts hold the same    *)
(* _opid request header.                                                   *)
C5_Original ==
    \A c \in Ctxs : \A d \in Ctxs : c # d => OpIDHeaderOf(c) # OpIDHeaderOf(d)

(* C5, amended: no token is issued twice, so no two contexts that still    *)
(* hold the token they were issued hold the same _opid; the _opid of a     *)
(* context changes only by AddRequestHeader("_opid", v) (setRequestOpID    *)
(* included), which stores v unchecked and can repeat another context's.   *)
C5_IssuedOpIDsUnique ==
    /\ [](\A c \in Ctxs : \A d \in Ctxs :
            (c # d /\ OpIDHeaderOf(c) = issued[c] /\ OpIDHeaderOf(d) = issued[d])
                => OpIDHeaderOf(c) # OpIDHeaderOf(d))
    /\ [][\A c \in Ctxs :
            OpIDHeaderAfter(c) # OpIDHeaderOf(c) =>
                \E t \in Threads : /\ Returns(t, "AddRequestHeader")
                                   /\ frame[t].c = c
                                   /\ frame[t].name = opIDHeader
                                   /\ OpIDHeaderAfter(c) = frame[t].value]_vars

\* setRequestOpID has overwritten the _opid of one context while another
\* context holds the token it was issued.
C5_Witness ==
    \E t \in Threads : \E d \in Ctxs :
        /\ ret[t].op = "setRequestOpID"
        /\ OpIDHeaderOf(ret[t].c) # issued[ret[t].c]
        /\ d # ret[t].c /\ OpIDHeaderOf(d) = issued[d]

(* C6: in every reachable state every context has a _cid and an _opid      *)
(* request header.                                                         *)
C6_CidAndOpIDPresent ==
    \A c \in Ctxs : MapHas(RequestMap(c), cidHeader) /\ MapHas(RequestMap(c), opIDHeader)

\* A clone on which a request header has been written.
C6_Witness ==
    \E t \in Threads : \E u \in Threads :
        /\ ret[t].op = "Clone"
        /\ ret[u].op \in {"AddRequestHeader", "setRequestOpID", "SetTimeout"}
        /\ ret[u].c = ret[t].new

\* The _timeout of request headers m is the text of an integer >= 0.
TimeoutWellFormed(m) ==
    /\ MapHas(m, timeoutHeader)
    /\ IsInt64Text(m[timeoutHeader])
    /\ SignedValue(m[timeoutHeader]) >= 0

(* C7 as stated: in every reachable state the _timeout request header of   *)
(* every context is present and parses as a non-negative integer.          *)
C7_Original ==
    \A c \in Ctxs : TimeoutWellFormed(RequestMap(c))

\* The request-header maps: those of the contexts and the copies Clone holds.
RequestAddrs ==
    { requestHeaders[c] : c \in Ctxs } \cup ({ frame[t].rh : t \in Threads } \ {0})

(* C7, amended: the _timeout request header of every context is always     *)
(* present.  It parses as a non-negative integer when NewFContext returns   *)
(* and stays so under every operation except AddRequestHeader("_timeout",   *)
(* v), which stores v unchecked, and SetTimeout(d) with d < 0, which stores *)
(* a negative number; the copy Clone takes of the request headers has the   *)
(* _timeout its source holds at that moment.                                *)
C7_TimeoutPresent ==
    /\ [](\A c \in Ctxs : MapHas(RequestMap(c), timeoutHeader))
    /\ [][\A a \in RequestAddrs' :
            ~ TimeoutWellFormed(heap'[a]) =>
                \/ a \in RequestAddrs /\ ~ TimeoutWellFormed(heap[a])
                \/ \E t \in Threads :
                      /\ \/ Returns(t, "AddRequestHeader") /\ frame[t].name = timeoutHeader
                         \/ Returns(t, "SetTimeout") /\ frame[t].n < 0
                      /\ a = requestHeaders[frame[t].c]
                \/ \E t \in Threads :
                      /\ frame[t].pc = "RequestHeaders" /\ frame'[t].rh = a
                      /\ ~ TimeoutWellFormed(RequestMap(frame[t].c))]_vars

\* SetTimeout(7500ms) has returned and the header is "7500".
C7_Witness ==
    \E t \in Threads :
        /\ ret[t].op = "SetTimeout" /\ ret[t].n = 7500 * Millisecond
        /\ RequestMap(ret[t].c)[timeoutHeader] = <<"7", "5", "0", "0">>

\* No map of any context changes in this step.
MapsUnchanged ==
    /\ Ctxs' = Ctxs
    /\ \A c \in Ctxs : MapsAfter(c) = MapsOf(c)

(* C8: Timeout() never fails: whenever the _timeout request header is      *)
(* missing or is not the text of an integer (of an int64) it returns the   *)
(* default, 5000ms, and it leaves the maps of the context unchanged.       *)
C8_TimeoutFailSoft ==
    [][\A t \in Threads : Returns(t, "Timeout") =>
          LET m == RequestMap(frame[t].c) IN
          /\ ret'[t].op = frame[t].op /\ ret'[t].err = "nil"
          /\ (~ MapHas(m, timeoutHeader) \/ ~ IsInt64Text(MapGet(m, timeoutHeader)))
                => ret'[t].n = 5000 * Millisecond
          /\ MapsUnchanged]_vars

\* Timeout() has returned the default for a _timeout header that is not a
\* number, or is too large for an int64.
C8_Witness ==
    \E t \in Threads :
        /\ ret[t].op = "Timeout"
        /\ ret[t].val \in { <<"a", "b", "c">>, TooBig }
        /\ ret[t].n = 5000 * Millisecond

(* C9: SetTimeout(d) stores the millisecond count of d in decimal under    *)
(* _timeout, and Timeout() returns exactly d when d is a whole number of   *)
(* milliseconds and _timeout was not written in between; on a context      *)
(* NewFContext returned, Timeout() returns 5000ms.                         *)
C9_TimeoutRoundTrip ==
    [][\A t \in Threads :
          /\ Returns(t, "SetTimeout") =>
                LET v == MapGet(RequestMapAfter(frame[t].c), timeoutHeader)
                    d == frame[t].n
                IN  /\ IsInt64Text(v)
                    /\ IF d >= 0
                       THEN SignedValue(v) * Millisecond <= d
                                /\ d < (SignedValue(v) + 1) * Millisecond
                       ELSE (SignedValue(v) - 1) * Millisecond < d
                                /\ d <= SignedValue(v) * Millisecond
          /\ Returns(t, "Timeout") =>
                \A d \in expect[frame[t].c] : d % Millisecond = 0 => ret'[t].n = d
          /\ (ret'[t] # ret[t] /\ ret'[t].op = "NewFContext") =>
                expect'[ret'[t].new] = {5000 * Millisecond}]_vars

\* Timeout() has returned 7500ms.
C9_Witness ==
    \E t \in Threads : ret[t].op = "Timeout" /\ ret[t].n = 7500 * Millisecond

\* When setRequestOpID returns, _opid is the decimal text of id.
SetRequestOpIDStores(t) ==
    (Returns(t, "AddRequestHeader") /\ frame[t].op = "setRequestOpID") =>
        LET v == MapGet(RequestMapAfter(frame[t].c), opIDHeader)
        IN  AllDigits(v) /\ DecimalValue(v) = frame[t].n

(* C10 as stated: getOpID returns an error exactly when the _opid request  *)
(* header is absent or is not the decimal text of a non-negative integer,  *)
(* and that integer otherwise; it leaves the context unchanged;            *)
(* setRequestOpID(ctx, id) stores the decimal text of id.                  *)
C10_Original ==
    [][\A t \in Threads :
          /\ (Returns(t, "RequestHeader") /\ frame[t].op = "getOpID") =>
                LET m == RequestMap(frame[t].c)
                    v == MapGet(m, opIDHeader)
                IN  /\ ret'[t].err # "nil" <=> (~ MapHas(m, opIDHeader) \/ ~ AllDigits(v))
                    /\ ret'[t].err = "nil" => ret'[t].n = DecimalValue(v)
                    /\ MapsUnchanged
          /\ SetRequestOpIDStores(t)]_vars

(* C10, amended: getOpID returns an error exactly when the _opid request   *)
(* header is absent, is not a non-empty string of decimal digits (a sign   *)
(* is not accepted), or denotes an integer that does not fit in a uint64;  *)
(* otherwise it returns that integer; it leaves the context unchanged;     *)
(* setRequestOpID(ctx, id) stores the decimal text of id, so getOpID then  *)
(* returns id.                                                             *)
C10_GetOpID ==
    [][\A t \in Threads :
          /\ (Returns(t, "RequestHeader") /\ frame[t].op = "getOpID") =>
                LET m == RequestMap(frame[t].c)
                    v == MapGet(m, opIDHeader)
                IN  /\ ret'[t].err # "nil" <=>
                            \/ ~ MapHas(m, opIDHeader)
                            \/ ~ AllDigits(v)
                            \/ DecimalValue(v) > MaxUint64
                    /\ ret'[t].err = "nil" => ret'[t].n = DecimalValue(v)
                    /\ ret'[t].err # "nil" => ret'[t].n = 0
                    /\ MapsUnchanged
          /\ SetRequestOpIDStores(t)
          /\ frame[t].op = "setRequestOpID" => frame[t].n <= MaxUint64]_vars

\* getOpID has returned the largest uint64, which setRequestOpID stored.
C10_Witness ==
    \E t \in Threads : \E u \in Threads :
        /\ ret[t].op = "getOpID" /\ ret[t].err = "nil" /\ ret[t].n = MaxUint64
        /\ ret[u].op = "setRequestOpID" /\ ret[u].c = ret[t].c /\ ret[u].n = MaxUint64

----------------------------------------------------------------------------
\* Map m holds value under name.
Holds(m, name, value) == name \in DOMAIN m /\ m[name] = value

(* C11: no write is lost.  Every <<name, value>> that an AddRequestHeader   *)
(* call has stored and returned, the latest for its name, is in the request *)
(* headers of the context, whatever the goroutines do concurrently; and the *)
(* map that a RequestHeaders() call returns holds every name that such a    *)
(* call had stored before RequestHeaders() began, with the value stored,    *)
(* unless a later call has stored another value under that name.            *)
C11_NoLostWrites ==
    /\ [](\A c \in Ctxs : \A w \in wrote[c] : Holds(RequestMap(c), w[1], w[2]))
    /\ [][\A t \in Threads :
            (Returns(t, "RequestHeaders") /\ frame[t].op = "RequestHeaders") =>
                LET headers == heap'[ret'[t].m] IN
                \A w \in frame[t].seen :
                    /\ w[1] \in DOMAIN headers
                    /\ w \in wrote'[frame[t].c] => headers[w[1]] = w[2]]_vars

\* RequestHeaders() has returned to one goroutine a map with the application
\* header that another goroutine had added before the call began.
C11_Witness ==
    \E t \in Threads : \E u \in Threads \ {t} :
        /\ ret[t].op = "RequestHeaders" /\ ~ ret[t].touched
        /\ ret[u].op = "AddRequestHeader" /\ ret[u].c = ret[t].c
        /\ ret[u].name = <<"x">>
        /\ << ret[u].name, ret[u].val >> \in ret[t].seen
        /\ Holds(heap[ret[t].m], ret[u].name, ret[u].val)

\* The addresses of the three maps of context c, and of every context.
OwnAddrs(c) == { requestHeaders[c], responseHeaders[c], ephemeralProperties[c] }
ContextAddrs == UNION { OwnAddrs(c) : c \in Ctxs }

\* The map of its context that the accessor of record r copies.
SourceMap(r) ==
    CASE r.op = "RequestHeaders" -> RequestMap(r.c)
      [] r.op = "ResponseHeaders" -> ResponseMap(r.c)
      [] r.op = "EphemeralProperties" -> EphemeralMap(r.c)

\* Goroutine t returns from RequestHeaders(), ResponseHeaders() or
\* EphemeralProperties(), called by the application, in this step.
ReturnsMap(t) ==
    /\ frame[t].op \in {"RequestHeaders", "ResponseHeaders", "EphemeralProperties"}
    /\ Returns(t, frame[t].op)

(* C12: RequestHeaders(), ResponseHeaders() and EphemeralProperties()      *)
(* return independent copies.  The map returned is a new map, equal to the  *)
(* map of the context at that moment and shared with no context and no      *)
(* other goroutine; a later AddRequestHeader, AddResponseHeader,            *)
(* AddEphemeralProperty or SetTimeout changes no map but those of its own   *)
(* context, so no map returned earlier; and a write by the application to   *)
(* a map it was returned changes that map only, so no map of any context.   *)
C12_IndependentCopies ==
    /\ [](\A t \in Threads : ret[t].m # 0 =>
            /\ ret[t].m \in DOMAIN heap \ ContextAddrs
            /\ \A u \in Threads \ {t} :
                  ret[t].m \notin { ret[u].m, frame[u].rh, frame[u].sh, frame[u].ep })
    /\ [][\A t \in Threads :
            /\ ReturnsMap(t) =>
                  /\ ret'[t].m \notin DOMAIN heap
                  /\ heap'[ret'[t].m] = SourceMap([op |-> frame[t].op, c |-> frame[t].c])
                  /\ MapsUnchanged
            /\ Writes(t) =>
                  \A a \in DOMAIN heap \ OwnAddrs(frame[t].c) : heap'[a] = heap[a]
            /\ (ret'[t].touched /\ ~ ret[t].touched) =>
                  /\ \A a \in DOMAIN heap \ {ret[t].m} : heap'[a] = heap[a]
                  /\ MapsUnchanged]_vars

\* A goroutine holds the map RequestHeaders() returned to it, another has
\* since added a header to the context, and the returned map does not have it.
C12_Witness ==
    \E t \in Threads : \E u \in Threads \ {t} :
        /\ ret[t].op = "RequestHeaders" /\ ret[t].m # 0
        /\ ret[u].op = "AddRequestHeader" /\ ret[u].c = ret[t].c
        /\ Holds(RequestMap(ret[t].c), ret[u].name, ret[u].val)
        /\ ~ Holds(heap[ret[t].m], ret[u].name, ret[u].val)

\* The application has written to a map it was returned, which now differs
\* from the map of the context.
C12_WitnessCallerWrites ==
    \E t \in Threads :
        /\ ret[t].touched
        /\ heap[ret[t].m] # SourceMap(ret[t])
        /\ <<"z">> \in DOMAIN heap[ret[t].m] /\ <<"z">> \notin DOMAIN SourceMap(ret[t])

\* Map after is map before but for the entry of k, which holds v.
OnlyEntry(before, after, k, v) ==
    /\ DOMAIN after = (DOMAIN before) \cup {k}
    /\ after[k] = v
    /\ \A x \in (DOMAIN before) \ {k} : after[x] = before[x]

(* C13: each mutator changes one entry of one map of its context.          *)
(* AddEphemeralProperty(k, v) sets the entry of k in the ephemeral          *)
(* properties and leaves the request and response headers as they are;      *)
(* AddRequestHeader(name, value) and SetTimeout set one entry of the        *)
(* request headers (name, _timeout) and leave the response headers and the  *)
(* ephemeral properties; AddResponseHeader(name, value) and                 *)
(* setResponseOpID(ctx, id) set one entry of the response headers (name,    *)
(* _opid) and leave the request headers and the ephemeral properties.       *)
C13_EphemeralExclusion ==
    [][\A t \in Threads :
          LET f == frame[t] IN
          /\ Returns(t, "AddEphemeralProperty") =>
                /\ OnlyEntry(EphemeralMap(f.c), EphemeralMapAfter(f.c), f.name, f.value)
                /\ RequestMapAfter(f.c) = RequestMap(f.c)
                /\ ResponseMapAfter(f.c) = ResponseMap(f.c)
          /\ Returns(t, "AddRequestHeader") =>
                /\ OnlyEntry(RequestMap(f.c), RequestMapAfter(f.c), f.name, f.value)
                /\ ResponseMapAfter(f.c) = ResponseMap(f.c)
                /\ EphemeralMapAfter(f.c) = EphemeralMap(f.c)
          /\ Returns(t, "SetTimeout") =>
                /\ OnlyEntry(RequestMap(f.c), RequestMapAfter(f.c), timeoutHeader,
                             RequestMapAfter(f.c)[timeoutHeader])
                /\ ResponseMapAfter(f.c) = ResponseMap(f.c)
                /\ EphemeralMapAfter(f.c) = EphemeralMap(f.c)
          /\ Returns(t, "AddResponseHeader") =>
                /\ OnlyEntry(ResponseMap(f.c), ResponseMapAfter(f.c), f.name, f.value)
                /\ RequestMapAfter(f.c) = RequestMap(f.c)
                /\ EphemeralMapAfter(f.c) = EphemeralMap(f.c)
          /\ (f.op = "setResponseOpID" /\ frame'[t].pc = "idle") =>
                /\ OnlyEntry(ResponseMap(f.c), ResponseMapAfter(f.c), opIDHeader, f.value)
                /\ RequestMapAfter(f.c) = RequestMap(f.c)
                /\ EphemeralMapAfter(f.c) = EphemeralMap(f.c)]_vars

\* AddEphemeralProperty(k, v) and setResponseOpID have returned on one
\* context: k is an ephemeral property and no header, and the response _opid
\* is no request header.
C13_Witness ==
    \E t \in Threads : \E u \in Threads :
        LET c == ret[t].c IN
        /\ ret[t].op = "AddEphemeralProperty"
        /\ Holds(EphemeralMap(c), ret[t].name, ret[t].val)
        /\ ret[t].name \notin (DOMAIN RequestMap(c)) \cup (DOMAIN ResponseMap(c))
        /\ ret[u].op = "setResponseOpID" /\ ret[u].c = c
        /\ Holds(ResponseMap(c), opIDHeader, ret[u].val)
        /\ RequestMap(c)[opIDHeader] = issued[c]
        /\ DOMAIN EphemeralMap(c) = {ret[t].name}

\* A NewFContext or a Clone returns context c to goroutine t in this step.
Constructs(t, c) ==
    /\ ret'[t] # ret[t] /\ ret'[t].op \in {"NewFContext", "Clone"}
    /\ ret'[t].new = c /\ c \in Ctxs' \ Ctxs

(* C14: the opid counter starts at 0 and is the number of draws made; the   *)
(* draws are those of NewFContext and Clone, one for each context they      *)
(* return, and nothing else changes the counter.  A draw adds one and       *)
(* gives the decimal text of the new value: the k-th context constructed    *)
(* was issued k (the first 1), so tokens increase strictly in the order of  *)
(* the draws, whichever goroutines draw.                                    *)
C14_Counter ==
    /\ [](nextOpID = Cardinality(Ctxs))
    /\ [](\A c \in Ctxs : AllDigits(issued[c]) /\ DecimalValue(issued[c]) = c)
    /\ [](\A c \in Ctxs : \A d \in Ctxs :
            c < d => DecimalValue(issued[c]) < DecimalValue(issued[d]))
    /\ [][(nextOpID' # nextOpID \/ Ctxs' # Ctxs) =>
            /\ nextOpID' = nextOpID + 1
            /\ \E t \in Threads : \E c \in Ctxs' :
                  /\ Constructs(t, c)
                  /\ Ctxs' = Ctxs \cup {c}
                  /\ DecimalValue(issued'[c]) = nextOpID'
                  /\ OpIDHeaderAfter(c) = issued'[c]]_vars

\* Three draws, by NewFContext and by Clone, in two goroutines: the counter
\* is 3 and the third context was issued "3".
C14_Witness ==
    /\ nextOpID = 3 /\ issued[3] = <<"3">> /\ issued[1] = <<"1">>
    /\ \E t \in Threads : \E u \in Threads \ {t} :
            ret[t].op = "NewFContext" /\ ret[u].op = "Clone" /\ ret[u].new = 3

\* The program points at which a goroutine is about to write, and to read, a
\* map of the context of its call.
WritePcs == { "AddRequestHeader", "AddResponseHeader", "AddEphemeralProperty",
              "SetTimeout" }
ReadPcs == { "CorrelationID", "RequestHeader", "RequestHeaders", "ResponseHeader",
             "ResponseHeaders", "Timeout", "EphemeralProperty", "EphemeralProperties" }
Writing(t, c) == frame[t].pc \in WritePcs /\ frame[t].c = c
Reading(t, c) == frame[t].pc \in ReadPcs /\ frame[t].c = c

(* C15: no data race on the maps of a context.  A goroutine about to write  *)
(* a map of context c holds c's lock exclusively, and no other goroutine is *)
(* about to read or write a map of c; a goroutine about to read a map of c  *)
(* holds c's lock, shared or exclusive; and the maps of a context change    *)
(* only in a step of a goroutine that holds its lock exclusively (the write *)
(* of Clone to the new context's _opid is to a map no context has yet).     *)
C15_NoDataRace ==
    /\ [](\A t \in Threads : \A c \in Ctxs :
            /\ Writing(t, c) =>
                  /\ mu[c].w = t /\ mu[c].r = {}
                  /\ \A u \in Threads \ {t} : ~ Writing(u, c) /\ ~ Reading(u, c)
            /\ Reading(t, c) => (t \in mu[c].r \/ mu[c].w = t))
    /\ [][\A c \in Ctxs : MapsAfter(c) # MapsOf(c) =>
            \E t \in Threads : Writing(t, c) /\ mu[c].w = t /\ frame'[t].pc = "idle"]_vars

\* A goroutine holds the lock of a context exclusively and is about to add a
\* request header, while another is in the middle of cloning that context.
C15_Witness ==
    \E t \in Threads : \E u \in Threads \ {t} :
        /\ Writing(t, frame[t].c) /\ frame[t].pc = "AddRequestHeader"
        /\ mu[frame[t].c].w = t
        /\ frame[u].op = "Clone" /\ frame[u].c = frame[t].c
        /\ frame[u].pc = "Clone_ResponseHeaders"

\* The calls that change a map: AddRequestHeader (setRequestOpID calls it),
\* AddResponseHeader (setResponseOpID calls it), AddEphemeralProperty and
\* SetTimeout.
MutatorOps == { "AddRequestHeader", "setRequestOpID", "AddResponseHeader",
                "setResponseOpID", "AddEphemeralProperty", "SetTimeout" }

(* C16: the read operations of a context (CorrelationID, RequestHeader,     *)
(* RequestHeaders, ResponseHeader, ResponseHeaders, Timeout,                *)
(* EphemeralProperty, EphemeralProperties) never exclude each other: each   *)
(* holds the lock in shared mode while it reads, and only the mutators      *)
(* (Add*, SetTimeout) ever hold it exclusively.                             *)
C16_Original ==
    /\ \A c \in Ctxs : mu[c].w # 0 => frame[mu[c].w].op \in MutatorOps
    /\ \A t \in Threads : \A c \in Ctxs : Reading(t, c) => t \in mu[c].r

\* The same of every read operation but EphemeralProperty, which holds.
C16_ButEphemeralProperty ==
    /\ \A c \in Ctxs : mu[c].w # 0 =>
            frame[mu[c].w].op \in MutatorOps \cup {"EphemeralProperty"}
    /\ \A t \in Threads : \A c \in Ctxs :
            (Reading(t, c) /\ frame[t].pc # "EphemeralProperty") => t \in mu[c].r

\* ToContext returns to goroutine t in this step.
ReturnsScope(t) == Returns(t, "Timeout") /\ frame[t].op = "ToContext"

\* What Timeout() returns for the _timeout header v of map m, read without
\* strconv: the default when v is missing or is no int64, else v milliseconds
\* (in the width of a time.Duration).
TimeoutFor(m) ==
    IF timeoutHeader \notin DOMAIN m \/ ~ IsInt64Text(m[timeoutHeader])
    THEN 5000 * Millisecond
    ELSE Int64(SignedValue(m[timeoutHeader]) * Millisecond)

\* The part of C17 that does not depend on what SetTimeout was given: the
\* scope ToContext returns to t is bound by a deadline, the timeout being
\* fctx.Timeout(), exactly when fctx.Timeout() > 0, and is the unbounded
\* background scope otherwise; a missing or corrupted _timeout gives a
\* deadline of 5000ms.
ScopeFollowsTimeout(t) ==
    LET m == RequestMap(frame[t].c) IN
    /\ ret'[t].op = "ToContext" /\ ret'[t].n = TimeoutFor(m)
    /\ ret'[t].scope = "WithTimeout" <=> ret'[t].n > 0
    /\ ret'[t].scope = "Background" <=> ret'[t].n <= 0
    /\ (timeoutHeader \notin DOMAIN m \/ ~ IsInt64Text(m[timeoutHeader])) =>
            ret'[t].scope = "WithTimeout" /\ ret'[t].n = 5000 * Millisecond
    /\ MapsUnchanged

(* C17 as stated: ToContext(fctx) returns a scope bound by a deadline, the  *)
(* timeout being fctx.Timeout(), exactly when fctx.Timeout() > 0, and the   *)
(* unbounded scope otherwise; a missing or corrupted _timeout gives a       *)
(* deadline of 5000ms; and after SetTimeout(d) with any d > 0 the scope is  *)
(* bound by a deadline.                                                     *)
C17_Original ==
    [][\A t \in Threads : ReturnsScope(t) =>
          /\ ScopeFollowsTimeout(t)
          /\ \A d \in expect[frame[t].c] : d > 0 => ret'[t].scope = "WithTimeout"]_vars

(* C17, amended: ToContext(fctx) returns a scope bound by a deadline, the   *)
(* timeout being fctx.Timeout(), exactly when fctx.Timeout() > 0, and the   *)
(* unbounded scope otherwise; a missing or corrupted _timeout gives a       *)
(* deadline of 5000ms; after SetTimeout(d) with d of at least one           *)
(* millisecond the scope is bound by a deadline of d rounded down to whole  *)
(* milliseconds, and with d below one millisecond (d positive included,     *)
(* which is stored as 0) it is unbounded.                                   *)
C17_ToContext ==
    [][\A t \in Threads : ReturnsScope(t) =>
          /\ ScopeFollowsTimeout(t)
          /\ \A d \in expect[frame[t].c] :
                /\ d >= Millisecond =>
                      /\ ret'[t].scope = "WithTimeout"
                      /\ ret'[t].n = d - (d % Millisecond)
                /\ d < Millisecond => ret'[t].scope = "Background"]_vars

\* ToContext has returned a scope with a deadline of one millisecond for a
\* context whose timeout SetTimeout had set a little above one millisecond.
C17_Witness ==
    \E t \in Threads :
        /\ ret[t].op = "ToContext" /\ ret[t].scope = "WithTimeout"
        /\ expect[ret[t].c] = {Millisecond + 1}
        /\ ret[t].n = Millisecond

\* ToContext has returned the unbounded scope for a context whose timeout
\* SetTimeout had set to a positive duration.
C17_WitnessSubMillisecond ==
    \E t \in Threads :
        /\ ret[t].op = "ToContext" /\ ret[t].scope = "Background"
        /\ \E d \in expect[ret[t].c] : d > 0

----------------------------------------------------------------------------
(* Blocking.  Under Spec a call begins when its lock is free.  Here a call  *)
(* may also begin while its lock is not free: the goroutine blocks in       *)
(* Lock() or RLock() and goes on when the lock is given to it.  A goroutine *)
(* blocked in Lock() keeps new readers out (sync.RWMutex prefers writers).  *)

\* The calls that take the lock of their context: the method, the lock
\* operation it begins with, the program point after it, and its arguments.
Call(op, lock, pc, name, value, n) ==
    [op |-> op, lock |-> lock, pc |-> pc, name |-> name, value |-> value, n |-> n]
LockingCalls ==
    { Call("AddRequestHeader", "Lock", "AddRequestHeader", <<"x">>, <<"1">>, 0),
      Call("setRequestOpID", "Lock", "AddRequestHeader", opIDHeader, FormatUint(2), 2),
      Call("AddResponseHeader", "Lock", "AddResponseHeader", <<"y">>, <<"1">>, 0),
      Call("setResponseOpID", "Lock", "AddResponseHeader", opIDHeader, <<"1">>, 0),
      Call("AddEphemeralProperty", "Lock", "AddEphemeralProperty", <<"k">>, <<"v">>, 0),
      Call("SetTimeout", "Lock", "SetTimeout", << >>, << >>, Millisecond + 1),
      Call("EphemeralProperty", "Lock", "EphemeralProperty", <<"k">>, << >>, 0),
      Call("CorrelationID", "RLock", "CorrelationID", cidHeader, << >>, 0),
      Call("RequestHeader", "RLock", "RequestHeader", <<"x">>, << >>, 0),
      Call("getOpID", "RLock", "RequestHeader", opIDHeader, << >>, 0),
      Call("RequestHeaders", "RLock", "RequestHeaders", << >>, << >>, 0),
      Call("ResponseHeader", "RLock", "ResponseHeader", <<"y">>, << >>, 0),
      Call("ResponseHeaders", "RLock", "ResponseHeaders", << >>, << >>, 0),
      Call("Timeout", "RLock", "Timeout", << >>, << >>, 0),
      Call("ToContext", "RLock", "Timeout", << >>, << >>, 0),
      Call("EphemeralProperties", "RLock", "EphemeralProperties", << >>, << >>, 0),
      Call("Clone", "RLock", "RequestHeaders", << >>, << >>, 0) }

\* Goroutine t makes call on c and blocks in c.mu.Lock() or c.mu.RLock().
Blocks(t, c, call) ==
    /\ CanCall(t) /\ c \in Ctxs
    /\ IF call.lock = "Lock" THEN ~ CanLock(c) ELSE ~ CanRLock(c)
    /\ mu' = IF call.lock = "Lock" THEN [mu EXCEPT ![c].p = @ \cup {t}] ELSE mu
    /\ Begin(t, call.op, call.lock, c, call.name, call.value, call.n)
    /\ UNCHANGED << nextOpID, heap, requestHeaders, responseHeaders,
                    ephemeralProperties, issued, expect, wrote >>

\* The program point that the call of a blocked goroutine goes on at.
Unblocked(f) ==
    (CHOOSE call \in LockingCalls : call.op = f.op /\ call.lock = f.pc).pc

\* c.mu.Lock() returns to the blocked goroutine t
Lock_Unblocks(t) ==
    /\ frame[t].pc = "Lock" /\ CanLock(frame[t].c)
    /\ mu' = Lock(t, frame[t].c)
    /\ frame' = [frame EXCEPT ![t].pc = Unblocked(frame[t])]
    /\ UNCHANGED << nextOpID, heap, requestHeaders, responseHeaders,
                    ephemeralProperties, ret, calls, issued, expect, wrote >>

\* c.mu.RLock() returns to the blocked goroutine t
RLock_Unblocks(t) ==
    /\ frame[t].pc = "RLock" /\ CanRLock(frame[t].c)
    /\ mu' = RLock(t, frame[t].c)
    /\ frame' = [frame EXCEPT ![t].pc = Unblocked(frame[t])]
    /\ UNCHANGED << nextOpID, heap, requestHeaders, responseHeaders,
                    ephemeralProperties, ret, calls, issued, expect, wrote >>

\* A step of goroutine t within the call it has made.
Run(t) ==
    \/ Lock_Unblocks(t) \/ RLock_Unblocks(t)
    \/ AddRequestHeader(t) \/ AddResponseHeader(t) \/ AddEphemeralProperty(t)
    \/ SetTimeout(t) \/ Timeout(t) \/ CorrelationID(t) \/ RequestHeader(t)
    \/ ResponseHeader(t) \/ EphemeralProperty(t)
    \/ RequestHeaders(t) \/ ResponseHeaders_RLock(t) \/ ResponseHeaders(t)
    \/ EphemeralProperties_RLock(t) \/ EphemeralProperties(t) \/ Clone_Return(t)

\* A goroutine makes a call: NewFContext, or a call on a context, which
\* takes the lock at once if it is free and blocks otherwise.
Calls(t) ==
    \/ NewFContext(t, <<"a", "b", "c">>)
    \/ \E c \in Ctxs :
        \/ AddRequestHeader_Lock(t, c, <<"x">>, <<"1">>)
        \/ setRequestOpID(t, c, 2)
        \/ AddResponseHeader_Lock(t, c, <<"y">>, <<"1">>)
        \/ setResponseOpID(t, c, <<"1">>)
        \/ AddEphemeralProperty_Lock(t, c, <<"k">>, <<"v">>)
        \/ SetTimeout_Lock(t, c, Millisecond + 1)
        \/ EphemeralProperty_Lock(t, c, <<"k">>)
        \/ CorrelationID_RLock(t, c)
        \/ RequestHeader_RLock(t, c, <<"x">>)
        \/ getOpID(t, c)
        \/ RequestHeaders_Call(t, c)
        \/ ResponseHeader_RLock(t, c, <<"y">>)
        \/ ResponseHeaders_Call(t, c)
        \/ Timeout_RLock(t, c)
        \/ ToContext(t, c)
        \/ EphemeralProperties_Call(t, c)
        \/ Clone(t, c)
        \/ \E call \in LockingCalls : Blocks(t, c, call)

NextBlocking == \E t \in Threads : Calls(t) \/ Run(t)

\* The Go scheduler runs every goroutine that can run, and a goroutine
\* blocked in Lock() or RLock() is woken when the lock can be given to it.
FairSpec == Init /\ [][NextBlocking]_vars /\ \A t \in Threads : WF_vars(Run(t))

\* Goroutine t holds the lock of context c, exclusively or shared.
HoldsLock(t, c) == mu[c].w = t \/ t \in mu[c].r
HoldsNoLock(t) == \A c \in Ctxs : ~ HoldsLock(t, c)

\* The program points at which a goroutine is about to call Lock() or
\* RLock(), or is blocked in it.
LockPcs == { "Lock", "RLock", "Clone_ResponseHeaders", "Clone_EphemeralProperties" }

(* C18: no deadlock, and every call returns.  A goroutine that calls (or is *)
(* blocked in) Lock() or RLock() of a context holds no lock, so no          *)
(* operation, Clone included, asks for a lock it holds; a goroutine that    *)
(* is in no call holds no lock, so every lock taken is released before the  *)
(* return; the goroutine that draws from the opid counter holds no lock;    *)
(* and with fair scheduling and a lock that prefers writers every call      *)
(* that any goroutine has made returns.                                     *)
C18_Termination ==
    /\ [](\A t \in Threads :
            /\ frame[t].pc \in LockPcs \cup {"idle", "Clone_getNextOpID"} => HoldsNoLock(t)
            /\ \A c \in Ctxs : HoldsLock(t, c) => frame[t].c = c)
    /\ [][nextOpID' # nextOpID =>
            \E t \in Threads : ret'[t] # ret[t] /\ HoldsNoLock(t)]_vars
    /\ \A t \in Threads : (frame[t].pc # "idle") ~> (frame[t].pc = "idle")

\* A goroutine is blocked in Lock() of a context that another goroutine is
\* cloning: the clone has released the lock after copying the request
\* headers and must take it again, after the writer.
C18_Witness ==
    \E t \in Threads : \E u \in Threads \ {t} :
        /\ frame[t].op = "Clone" /\ frame[t].pc = "Clone_ResponseHeaders"
        /\ frame[u].pc = "Lock" /\ frame[u].c = frame[t].c
        /\ u \in mu[frame[t].c].p
        /\ ~ CanRLock(frame[t].c)

----------------------------------------------------------------------------
(* Clone among writers.  One context has been constructed, by               *)
(* NewFContext("abc"); the goroutines clone contexts and call the           *)
(* mutators.  calls counts the calls made since.                            *)

InitCloning ==
    /\ nextOpID = 1
    /\ heap = << NewRequestHeaders(<<"a", "b", "c">>, FormatUint(1)), EmptyMap, EmptyMap >>
    /\ requestHeaders = << 1 >>
    /\ responseHeaders = << 2 >>
    /\ ephemeralProperties = << 3 >>
    /\ mu = << Unlocked >>
    /\ frame = [t \in Threads |-> Idle]
    /\ ret = [t \in Threads |-> NoRet]
    /\ calls = 0
    /\ issued = << FormatUint(1) >>
    /\ expect = << {defaultTimeout} >>
    /\ wrote = << {} >>

\* The values written do not matter to what Clone copies: one value for
\* every name, and one duration.
NextCloning ==
    \/ \E t \in Threads, c \in Ctxs : Clone(t, c)
    \/ \E t \in Threads : RequestHeaders(t)
    \/ \E t \in Threads : ResponseHeaders_RLock(t)
    \/ \E t \in Threads : ResponseHeaders(t)
    \/ \E t \in Threads : EphemeralProperties_RLock(t)
    \/ \E t \in Threads : EphemeralProperties(t)
    \/ \E t \in Threads : Clone_Return(t)
    \/ \E t \in Threads, c \in Ctxs, name \in RequestNames, value \in { <<"1">> } :
          AddRequestHeader_Lock(t, c, name, value)
    \/ \E t \in Threads : AddRequestHeader(t)
    \/ \E t \in Threads, c \in Ctxs, name \in ResponseNames, value \in ResponseValues :
          AddResponseHeader_Lock(t, c, name, value)
    \/ \E t \in Threads, c \in Ctxs, id \in ResponseValues : setResponseOpID(t, c, id)
    \/ \E t \in Threads : AddResponseHeader(t)
    \/ \E t \in Threads, c \in Ctxs, key \in EphemeralKeys, value \in EphemeralValues :
          AddEphemeralProperty_Lock(t, c, key, value)
    \/ \E t \in Threads : AddEphemeralProperty(t)
    \/ \E t \in Threads, c \in Ctxs, timeout \in { 7500 * Millisecond } : SetTimeout_Lock(t, c, timeout)
    \/ \E t \in Threads : SetTimeout(t)

CloneSpec == InitCloning /\ [][NextCloning]_vars

\* The state of InitCloning, as NewFContext("abc") leaves it.
InitCloningReached ==
    /\ nextOpID = 1
    /\ heap = << NewRequestHeaders(<<"a", "b", "c">>, FormatUint(1)), EmptyMap, EmptyMap >>
    /\ requestHeaders = << 1 >> /\ responseHeaders = << 2 >>
    /\ ephemeralProperties = << 3 >> /\ mu = << Unlocked >>
    /\ frame = [t \in Threads |-> Idle]
    /\ issued = << FormatUint(1) >> /\ expect = << {defaultTimeout} >>
    /\ wrote = << {} >>
    /\ calls = 1

\* The three maps copies are those of hist at one instant (but for _opid),
\* and each at an instant of its own, in the order Clone copies them.
AtOneInstant(hist, copies) ==
    \E i \in 1..Len(hist) : SameButOpID(hist[i], copies)
AtThreeInstants(hist, copies) ==
    \E i \in 1..Len(hist) : \E j \in i..Len(hist) : \E k \in j..Len(hist) :
        SameButOpID(<< hist[i][1], hist[j][2], hist[k][3] >>, copies)

(* C19 as stated: Clone takes an atomic snapshot.  When c.Clone() returns,  *)
(* the clone's request headers (but for _opid), response headers and        *)
(* ephemeral properties are together the values that c's three maps had at  *)
(* one instant between the call and the return, whatever the writers on c   *)
(* did meanwhile.                                                           *)
C19_Original ==
    [][\A t \in Threads : Returns(t, "Clone_getNextOpID") =>
          AtOneInstant(frame[t].hist, MapsAfter(ret'[t].new))]_vars

(* C19, amended: Clone takes a snapshot of each map, not of the context.    *)
(* When c.Clone() returns, the clone's request headers (but for _opid) are  *)
(* c's request headers at one instant between the call and the return, its  *)
(* response headers are c's at an instant that is the same or later, and    *)
(* its ephemeral properties are c's at an instant that is the same or later *)
(* again; writers that run between the three copies can make the clone a    *)
(* combination that c never held.                                           *)
C19_CloneSnapshots ==
    [][\A t \in Threads : Returns(t, "Clone_getNextOpID") =>
          AtThreeInstants(frame[t].hist, MapsAfter(ret'[t].new))]_vars

\* Clone has copied the three maps of c while a goroutine added a request
\* header and then a response header: the copies have the response header
\* and not the request header, which c never had.
C19_Witness ==
    \E t \in Threads :
        LET f == frame[t]
            copies == << heap[f.rh], heap[f.sh], heap[f.ep] >>
        IN  /\ f.op = "Clone" /\ f.pc = "Clone_getNextOpID"
            /\ AtThreeInstants(f.hist, copies)
            /\ ~ AtOneInstant(f.hist, copies)
            /\ copies[2] # EmptyMap

====
